---- MODULE Spec2Model ----
(***************************************************************************)
(* Model of tmp_insert_modal.py: a script that reads                       *)
(* src/pages/AbiturPage.jsx as text, stops if the text already holds       *)
(* 'StudentHistoryModal', replaces the <Modal .../> block `old` by         *)
(* `new` = old + the <StudentHistoryModal .../> block, and writes the text *)
(* back.                                                                   *)
(*                                                                         *)
(* A file is a sequence of characters.  The 303-character literal `old`    *)
(* and the 176-character block appended to it are shortened to a few       *)
(* characters each; the shortening keeps every overlap fact of the source  *)
(* literals that str.replace, str.count and `in` depend on:                *)
(*   - old and the appended block both start with a space and end with a   *)
(*     line feed, and the marker holds neither character;                  *)
(*   - the marker does not occur in old and occurs once in the block;      *)
(*   - no proper prefix of old is a suffix of old (old cannot overlap      *)
(*     itself), and old occurs in new at offset 0 only;                    *)
(*   - none of the literals holds a carriage return.                       *)
(* Characters: "sp" a space, "nl" a line feed, "cr" a carriage return,     *)
(* "S" and "M" the two halves of the marker ("StudentHistory", "Modal"),   *)
(* "e" a non-ASCII character.                                              *)
(***************************************************************************)
EXTENDS Integers, Sequences, FiniteSets, TLC

VARIABLES file, linesep, pc, text, orig, writes, log, initial

vars == <<file, linesep, pc, text, orig, writes, log, initial>>

\* Longest initial content of the target file.
MaxLen == 4
\* Number of successive runs of the script in the sequential specification.
MaxRuns == 3

Char == {"sp", "nl", "cr", "S", "M", "e"}

Procs == {1, 2}

Contents == UNION {[1..n -> Char] : n \in 0..MaxLen}

\* line 9, line 11: the literal 'StudentHistoryModal'
marker == <<"S", "M">>

\* line 5: old = "      <Modal\n ... />\n\n"
old == <<"sp", "nl">>

\* line 6: the literal appended to old, "      <StudentHistoryModal\n ... />\n\n"
ins == <<"sp", "S", "M", "nl">>

\* line 6: new = old + "..."
new == old \o ins

----------------------------------------------------------------------------
\* Python str primitives

\* t[i+1 .. i+Len(p)] = p  (str.startswith(p, i), i counted from 0)
MatchAt(t, p, i) ==
    /\ i + Len(p) <= Len(t)
    /\ \A k \in 1..Len(p) : t[i + k] = p[k]

\* p in t
Contains(t, p) == \E i \in 0..(Len(t) - Len(p)) : MatchAt(t, p, i)

\* t.count(p): non-overlapping occurrences, scanned left to right
RECURSIVE CountFrom(_, _, _)
CountFrom(t, p, i) ==
    IF i + Len(p) > Len(t) THEN 0
    ELSE IF MatchAt(t, p, i) THEN 1 + CountFrom(t, p, i + Len(p))
    ELSE CountFrom(t, p, i + 1)

Count(t, p) == CountFrom(t, p, 0)

\* t.replace(o, n), o non-empty: every non-overlapping occurrence of o,
\* scanned left to right, is replaced by n
RECURSIVE ReplaceFrom(_, _, _, _)
ReplaceFrom(t, o, n, i) ==
    IF i >= Len(t) THEN <<>>
    ELSE IF MatchAt(t, o, i) THEN n \o ReplaceFrom(t, o, n, i + Len(o))
    ELSE <<t[i + 1]>> \o ReplaceFrom(t, o, n, i + 1)

\* the two literals passed in the wrong order: text.replace(new, old)
StrReplaceSwapped(t, o, n) == ReplaceFrom(t, n, o, 0)

\* text.replace(old, new)
StrReplace(t, o, n) == ReplaceFrom(t, o, n, 0)

----------------------------------------------------------------------------
\* Text-mode file I/O (Path.read_text / Path.write_text, newline=None)

\* Universal newlines on input: "\r\n" and a lone "\r" are read as "\n".
RECURSIVE TranslateIn(_, _)
TranslateIn(b, i) ==
    IF i > Len(b) THEN <<>>
    ELSE IF b[i] = "cr"
         THEN IF i < Len(b) /\ b[i + 1] = "nl"
              THEN <<"nl">> \o TranslateIn(b, i + 2)
              ELSE <<"nl">> \o TranslateIn(b, i + 1)
         ELSE <<b[i]>> \o TranslateIn(b, i + 1)

\* a read that drops what is not ASCII (errors='ignore' under an ASCII codec)
ReadTextAscii(b) == SelectSeq(TranslateIn(b, 1), LAMBDA c : c /= "e")

\* path.read_text(encoding='utf-8')
ReadText(b) == TranslateIn(b, 1)

\* On output every "\n" is written as os.linesep.
RECURSIVE TranslateOut(_, _, _)
TranslateOut(t, sep, i) ==
    IF i > Len(t) THEN <<>>
    ELSE IF t[i] = "nl" THEN sep \o TranslateOut(t, sep, i + 1)
    ELSE <<t[i]>> \o TranslateOut(t, sep, i + 1)

\* path.write_text(text, encoding='utf-8')
WriteText(t, sep) == TranslateOut(t, sep, 1)

\* os.linesep: "\n" on POSIX, "\r\n" on Windows
LineSeps == {<<"nl">>, <<"cr", "nl">>}

----------------------------------------------------------------------------
\* The script, one action per statement.  pc[p] names the line process p
\* executes next; "exit0" is normal termination, "exit1" the SystemExit.

Terminal == {"exit0", "exit1"}

Running == {"l4", "l7", "l9", "l12", "l13"}

Goto(p, l) == pc' = [pc EXCEPT ![p] = l]

Logged(p, outcome, after) ==
    log' = Append(log, [proc |-> p, before |-> orig[p],
                        outcome |-> outcome, after |-> after])

\* line 4: text = path.read_text(encoding='utf-8')
Read(p) ==
    /\ pc[p] = "l4"
    /\ text' = [text EXCEPT ![p] = ReadText(file)]
    /\ Goto(p, "l7")
    /\ UNCHANGED <<file, linesep, orig, writes, log, initial>>

\* line 7: the condition whose result is discarded
DeadCond(p) == Count(new, marker) > 1 /\ Contains(text[p], old)

\* lines 7-8: if ...: pass
DeadCheck(p) ==
    /\ pc[p] = "l7"
    /\ DeadCond(p) \in BOOLEAN
    /\ Goto(p, "l9")
    /\ UNCHANGED <<file, linesep, text, orig, writes, log, initial>>

\* a marker check that lets every content through
CheckMarkerNever(p) ==
    /\ pc[p] = "l9"
    /\ Goto(p, "l12")
    /\ UNCHANGED <<file, linesep, text, orig, writes, log, initial>>

\* a marker check that also stops when the anchor is missing
CheckMarkerOrNoAnchor(p) ==
    /\ pc[p] = "l9"
    /\ IF Contains(text[p], marker) \/ ~Contains(text[p], old)
       THEN Goto(p, "exit1") /\ Logged(p, "exit1", file)
       ELSE Goto(p, "l12") /\ UNCHANGED log
    /\ UNCHANGED <<file, linesep, text, orig, writes, initial>>

\* a marker check by equality instead of containment: marker == text
CheckMarkerEquals(p) ==
    /\ pc[p] = "l9"
    /\ IF text[p] = marker
       THEN Goto(p, "exit1") /\ Logged(p, "exit1", file)
       ELSE Goto(p, "l12") /\ UNCHANGED log
    /\ UNCHANGED <<file, linesep, text, orig, writes, initial>>

\* lines 9-11: if 'StudentHistoryModal' in text: raise SystemExit(...)
CheckMarker(p) ==
    /\ pc[p] = "l9"
    /\ IF Contains(text[p], marker)
       THEN Goto(p, "exit1") /\ Logged(p, "exit1", file)
       ELSE Goto(p, "l12") /\ UNCHANGED log
    /\ UNCHANGED <<file, linesep, text, orig, writes, initial>>

\* a replacement that also stores its result in the file
ReplaceInPlace(p) ==
    /\ pc[p] = "l12"
    /\ text' = [text EXCEPT ![p] = StrReplace(text[p], old, new)]
    /\ file' = WriteText(StrReplace(text[p], old, new), linesep)
    /\ Goto(p, "l13")
    /\ UNCHANGED <<linesep, orig, writes, log, initial>>

\* line 12: text = text.replace(old, new)
Replace(p) ==
    /\ pc[p] = "l12"
    /\ text' = [text EXCEPT ![p] = StrReplace(text[p], old, new)]
    /\ Goto(p, "l13")
    /\ UNCHANGED <<file, linesep, orig, writes, log, initial>>

\* a write that is skipped when the replacement changed nothing
WriteIfChanged(p) ==
    /\ pc[p] = "l13"
    /\ IF text[p] = ReadText(file)
       THEN UNCHANGED <<file, writes>>
       ELSE /\ file' = WriteText(text[p], linesep)
            /\ writes' = [writes EXCEPT ![p] = Append(@, text[p])]
    /\ Goto(p, "exit0")
    /\ Logged(p, "exit0", file')
    /\ UNCHANGED <<linesep, text, orig, initial>>

\* a write that patches the file as it is at the time of the write
WriteReread(p) ==
    /\ pc[p] = "l13"
    /\ file' = WriteText(StrReplace(ReadText(file), old, new), linesep)
    /\ writes' = [writes EXCEPT ![p] = Append(@, StrReplace(ReadText(file), old, new))]
    /\ Goto(p, "exit0")
    /\ Logged(p, "exit0", file')
    /\ UNCHANGED <<linesep, text, orig, initial>>

\* line 13: path.write_text(text, encoding='utf-8'), then the script ends
Write(p) ==
    /\ pc[p] = "l13"
    /\ file' = WriteText(text[p], linesep)
    /\ writes' = [writes EXCEPT ![p] = Append(@, text[p])]
    /\ Goto(p, "exit0")
    /\ Logged(p, "exit0", file')
    /\ UNCHANGED <<linesep, text, orig, initial>>

\* The developer runs the script again on the same file.
Start(p) ==
    /\ pc[p] \in Terminal
    /\ Len(log) < MaxRuns
    /\ Goto(p, "l4")
    /\ text' = [text EXCEPT ![p] = <<>>]
    /\ orig' = [orig EXCEPT ![p] = file]
    /\ writes' = [writes EXCEPT ![p] = <<>>]
    /\ UNCHANGED <<file, linesep, log, initial>>

----------------------------------------------------------------------------
\* Successive runs of the script by one process.

Init ==
    /\ file \in Contents
    /\ linesep \in LineSeps
    /\ pc = [p \in Procs |-> IF p = 1 THEN "l4" ELSE "idle"]
    /\ text = [p \in Procs |-> <<>>]
    /\ orig = [p \in Procs |-> file]
    /\ writes = [p \in Procs |-> <<>>]
    /\ log = <<>>
    /\ initial = file

Next ==
    \/ Read(1)
    \/ DeadCheck(1)
    \/ CheckMarker(1)
    \/ Replace(1)
    \/ Write(1)
    \/ Start(1)

Spec == Init /\ [][Next]_vars

\* Two runs of the script started on the same file, their statements
\* interleaved in any order.

InitConc ==
    /\ file \in Contents
    /\ linesep \in LineSeps
    /\ pc = [p \in Procs |-> "l4"]
    /\ text = [p \in Procs |-> <<>>]
    /\ orig = [p \in Procs |-> file]
    /\ writes = [p \in Procs |-> <<>>]
    /\ log = <<>>
    /\ initial = file

NextConc ==
    \E p \in Procs :
        \/ Read(p)
        \/ DeadCheck(p)
        \/ CheckMarker(p)
        \/ Replace(p)
        \/ Write(p)

SpecConc == InitConc /\ [][NextConc]_vars

----------------------------------------------------------------------------
\* Vocabulary of the properties

\* the offsets at which p occurs in t (overlapping occurrences included)
Occ(t, p) == {i \in 0..(Len(t) - Len(p)) : MatchAt(t, p, i)}

NumOcc(t, p) == Cardinality(Occ(t, p))

\* t with w put in at offset i
InsertAt(t, i, w) == SubSeq(t, 1, i) \o w \o SubSeq(t, i + 1, Len(t))

\* the least offset at which p occurs in t
FirstOcc(t, p) == CHOOSE i \in Occ(t, p) : \A j \in Occ(t, p) : i <= j

NonAscii(t) == SelectSeq(t, LAMBDA c : c = "e")

\* the content of the file as text: its characters with every line
\* terminator ("\r\n", "\r", "\n") taken as "\n"
TextOf(b) == TranslateIn(b, 1)

\* t holds the anchor once and no marker
OneAnchorNoMarker(t) == NumOcc(t, old) = 1 /\ ~Contains(t, marker)

\* t with the insertion put in right after the first anchor
PatchedOnce(t) == InsertAt(t, FirstOcc(t, old) + Len(old), ins)

----------------------------------------------------------------------------
\* Properties

\* C1  Idempotence guard: when the content of the file holds the marker
\* (with or without the anchor), a run never gets past the marker check (it
\* is at the read, the dead check, the marker check or the 'already
\* inserted' exit), has written nothing, and the file is as it was.
C1_MarkerStopsRun ==
    Contains(orig[1], marker) =>
        /\ pc[1] \in {"l4", "l7", "l9", "exit1"}
        /\ writes[1] = <<>>
        /\ file = orig[1]

C1_Witness ==
    /\ pc[1] = "exit1"
    /\ Contains(orig[1], marker)
    /\ Contains(orig[1], old)
    /\ Len(log) = 1

\* C2  Single application: when the text of the file holds the anchor
\* exactly once and no marker, after the run the text of the file is the
\* original text with the insertion put in right after the anchor, and the
\* marker occurs exactly once in it.
C2_SingleApplication ==
    (pc[1] = "exit0" /\ OneAnchorNoMarker(TextOf(orig[1]))) =>
        /\ TextOf(file) = PatchedOnce(TextOf(orig[1]))
        /\ NumOcc(TextOf(file), marker) = 1

C2_Witness ==
    /\ pc[1] = "exit0"
    /\ OneAnchorNoMarker(TextOf(orig[1]))
    /\ Len(orig[1]) > Len(old)
    /\ Len(writes[1]) = 1

\* C3  The insertion is never applied twice to the same file: over any
\* sequence of runs the file holds at most one inserted copy of the
\* insertion (copies it held before the first run are not counted).
C3_AtMostOneInsertion ==
    NumOcc(TextOf(file), ins) - NumOcc(TextOf(initial), ins) <= 1

\* C4  Only the first anchor is replaced: when the text holds no marker and
\* the anchor n >= 1 times, the text written is the original text with the
\* insertion after the first anchor only.
C4_FirstOccurrenceOnly ==
    (/\ pc[1] = "exit0"
     /\ ~Contains(TextOf(orig[1]), marker)
     /\ NumOcc(TextOf(orig[1]), old) >= 1) =>
        writes[1] = <<PatchedOnce(TextOf(orig[1]))>>

\* C5  A run that follows a run that wrote ends in the 'already inserted'
\* exit and leaves the file as the run before it wrote it.
C5_SecondRunFailsFast ==
    \A i \in 1..(Len(log) - 1) :
        log[i].outcome = "exit0" =>
            /\ log[i + 1].outcome = "exit1"
            /\ log[i + 1].after = log[i].after

\* C5 as amended: a run that follows a run that wrote, and whose text held
\* the anchor, ends in the 'already inserted' exit and leaves the file as
\* the run before it wrote it.
C5_SecondRunFailsFastAfterPatch ==
    \A i \in 1..(Len(log) - 1) :
        (log[i].outcome = "exit0" /\ Contains(TextOf(log[i].before), old)) =>
            /\ log[i + 1].outcome = "exit1"
            /\ log[i + 1].after = log[i].after

C5_Witness ==
    /\ Len(log) >= 2
    /\ log[1].outcome = "exit0"
    /\ Contains(TextOf(log[1].before), old)
    /\ log[2].outcome = "exit1"

\* C6  Missing anchor: when the text of the file holds neither the anchor
\* nor the marker, the run ends normally, and it has written once, the very
\* text it read.
C6_MissingAnchorRewrites ==
    (/\ pc[1] \in Terminal
     /\ ~Contains(TextOf(orig[1]), old)
     /\ ~Contains(TextOf(orig[1]), marker)) =>
        /\ pc[1] = "exit0"
        /\ writes[1] = <<TextOf(orig[1])>>
        /\ TextOf(file) = TextOf(orig[1])

C6_Witness ==
    /\ pc[1] = "exit0"
    /\ ~Contains(TextOf(orig[1]), old)
    /\ ~Contains(TextOf(orig[1]), marker)
    /\ Len(orig[1]) > 0
    /\ Len(writes[1]) = 1

\* C7  Process exit: a run ends abnormally exactly when the content it read
\* holds the marker; otherwise it ends normally, and only after exactly one
\* write.  No run writes more than once, and none writes before it ends.
C7_ExitStatus ==
    /\ pc[1] \in Terminal =>
          /\ pc[1] = "exit1" <=> Contains(orig[1], marker)
          /\ pc[1] = "exit0" => Len(writes[1]) = 1
    /\ pc[1] \in Running => writes[1] = <<>>

C7_Witness ==
    /\ Len(log) = 2
    /\ log[1].outcome = "exit0"
    /\ log[2].outcome = "exit1"
    /\ pc[1] = "exit1"

\* C8  Before the write step (at the read, the dead check, the marker check,
\* the replacement and with the write pending) the file on disk is what it
\* was when the run started.
C8_FileUntouchedBeforeWrite ==
    pc[1] \in Running => file = orig[1]

C8_Witness ==
    /\ pc[1] = "l13"
    /\ text[1] /= TextOf(orig[1])
    /\ file = orig[1]

====
